---- MODULE Spec2Model ----
(***************************************************************************)
(* A model of lib/streamlit/components.py: the process-wide component      *)
(* registry (ComponentRegistry), the declaration helper                    *)
(* (declare_component), the static asset handler                           *)
(* (ComponentRequestHandler) and the instance protocol                     *)
(* (CustomComponent.create_instance).                                      *)
(*                                                                         *)
(* Strings that the code splits, joins or normalises are modelled by the   *)
(* list str.split("/") gives: "a/b" is <<"a", "b">>, "/srv" is             *)
(* <<"", "srv">>, "" is <<"">>.  split and "/".join are inverse bijections *)
(* between strings and non-empty lists of "/"-free segments, so nothing is *)
(* lost.  The empty list << >> stands for Python's None where a path is    *)
(* Optional[str].                                                          *)
(***************************************************************************)
EXTENDS Naturals, Sequences, FiniteSets

(***************************************************************************)
(* Bounds of the model.                                                    *)
(***************************************************************************)
\* host threads: each runs calls (declare_component, a request) one after
\* another, concurrently with the other threads
NThreads == 2
\* calls started in one behaviour
MaxCalls == 3
\* widget ids the value store holds a reported value for
MaxReported == 1

Threads == 1 .. NThreads
NoThread == 0

(***************************************************************************)
(* Values.                                                                 *)
(***************************************************************************)
NoPath == << >>
NoUrl == "None"
NoExc == "None"

\* the component names declare_component derives from the caller's module
CompNames == {"alpha", "beta"}
\* the names a request may ask for
LookupNames == CompNames

\* path arguments: "./front" and "gone"
PathInputs == {<<".", "front">>, <<"gone">>}
UrlInputs == {"http://cdn/ui", "http://cdn/v2"}

\* the process's working directory, "/app"
Cwd == <<"", "app">>
\* the directories that exist: "/", "/app", "/app/front", "/app/front/sub"
Dirs ==
    {<<"", "">>, <<"", "app">>, <<"", "app", "front">>,
     <<"", "app", "front", "sub">>}
\* the files that exist, and whether each decodes as text:
\* "/app/front/index.html", "/app/front/sub/main.js", "/app/front/logo.png"
\* and, outside any component's directory, "/app/secret.txt"
TextFiles ==
    {<<"", "app", "front", "index.html">>,
     <<"", "app", "front", "sub", "main.js">>,
     <<"", "app", "secret.txt">>}
BinaryFiles == {<<"", "app", "front", "logo.png">>}
Files == TextFiles \cup BinaryFiles

\* what follows the component name in a request path: nothing ("alpha"),
\* "index.html", "sub/main.js", "logo.png", "nope.css", "../secret.txt" and
\* "/app/secret.txt" (the request "alpha//app/secret.txt")
Remainders ==
    {<< >>, <<"index.html">>, <<"sub", "main.js">>, <<"logo.png">>,
     <<"nope.css">>, <<"..", "secret.txt">>, <<"", "app", "secret.txt">>}

\* what follows the component name in the path of an OPTIONS request
OptionsRemainders == {<< >>, <<"index.html">>}

NoComp == [name |-> "", path |-> NoPath, url |-> NoUrl, oid |-> 0]
NoArgs ==
    [name |-> "", path |-> NoPath, url |-> NoUrl, req |-> NoPath,
     cors |-> FALSE]
NoRet == [exc |-> NoExc, val |-> NoPath]
\* a tornado response before the handler has touched it
NoBody == << >>
NoHeaders == << >>
NoResp ==
    [status |-> 200, body |-> NoBody, headers |-> NoHeaders, opened |-> << >>]

(***************************************************************************)
(* os.path, on split strings.                                              *)
(***************************************************************************)
\* str.startswith("/")
StartsWithSlash(s) == Len(s) >= 2 /\ s[1] = ""

\* str.endswith("/")
EndsWithSlash(s) == Len(s) >= 2 /\ s[Len(s)] = ""

\* posixpath.join(a, b): an absolute b replaces a; otherwise b is appended,
\* with a "/" unless a is empty or already ends in one
Join(a, b) ==
    IF StartsWithSlash(b) THEN b
    ELSE IF a = <<"">> THEN b
    ELSE IF EndsWithSlash(a) THEN SubSeq(a, 1, Len(a) - 1) \o b
    ELSE a \o b

\* posixpath.normpath's 1 or 2 leading slashes ("//x" keeps two, "///x" one)
InitialSlashes(s) ==
    IF ~StartsWithSlash(s) THEN 0
    ELSE IF Len(s) >= 3 /\ s[2] = "" /\ ~(Len(s) >= 4 /\ s[3] = "") THEN 2
    ELSE 1

\* posixpath.normpath's loop over the components: drops "" and ".", and lets
\* ".." pop the previous component (kept when relative and nothing to pop)
RECURSIVE NormComps(_, _, _)
NormComps(comps, new, slashes) ==
    IF comps = << >> THEN new
    ELSE LET c == Head(comps)
             rest == Tail(comps)
         IN  IF c = "" \/ c = "." THEN NormComps(rest, new, slashes)
             ELSE IF c # ".."
                     \/ (slashes = 0 /\ new = << >>)
                     \/ (new # << >> /\ new[Len(new)] = "..")
                  THEN NormComps(rest, Append(new, c), slashes)
             ELSE IF new # << >>
                  THEN NormComps(rest, SubSeq(new, 1, Len(new) - 1), slashes)
             ELSE NormComps(rest, new, slashes)

Normpath(s) ==
    IF s = <<"">> THEN <<".">>
    ELSE LET k == InitialSlashes(s)
             comps == NormComps(s, << >>, k)
             lead == [i \in 1 .. k |-> ""]
         IN  IF k = 0 THEN (IF comps = << >> THEN <<".">> ELSE comps)
             ELSE IF comps = << >> THEN Append(lead, "")
             ELSE lead \o comps

\* os.path.abspath(path)
OsAbspath(path) ==
    Normpath(IF StartsWithSlash(path) THEN path ELSE Join(Cwd, path))

\* os.path.isdir(path)
IsDir(path) == Normpath(path) \in Dirs

(***************************************************************************)
(* The filesystem: open(path, "r") and file.read().                        *)
(***************************************************************************)
\* a directory given by its components below "/", as an absolute path
AbsOf(cur) == IF cur = << >> THEN <<"", "">> ELSE <<"">> \o cur

\* the kernel's walk of a path's components from directory `cur`: "" and "."
\* stay, ".." goes to the parent, a name goes to the child, which must exist;
\* only a directory can be walked through
RECURSIVE Walk(_, _)
Walk(comps, cur) ==
    IF comps = << >> THEN [err |-> NoExc, at |-> cur]
    ELSE IF AbsOf(cur) \in Files
         THEN [err |-> "NotADirectoryError", at |-> cur]
    ELSE LET c == Head(comps)
         IN  IF c = "" \/ c = "." THEN Walk(Tail(comps), cur)
             ELSE IF c = ".."
                  THEN Walk(Tail(comps),
                            IF cur = << >> THEN cur
                            ELSE SubSeq(cur, 1, Len(cur) - 1))
             ELSE IF AbsOf(Append(cur, c)) \in Dirs \cup Files
                  THEN Walk(Tail(comps), Append(cur, c))
             ELSE [err |-> "FileNotFoundError", at |-> cur]

\* `with open(abspath, "r") as file: contents = file.read()`: the exception
\* raised, or the file read (its contents are named by the file)
OpenRead(path) ==
    IF path = <<"">> THEN [exc |-> "FileNotFoundError", file |-> NoPath]
    ELSE LET w == IF StartsWithSlash(path) THEN Walk(Tail(path), << >>)
                  ELSE Walk(path, Tail(Cwd))
             at == AbsOf(w.at)
         IN  IF w.err # NoExc THEN [exc |-> w.err, file |-> NoPath]
             ELSE IF at \in Dirs
                  THEN [exc |-> "IsADirectoryError", file |-> NoPath]
             ELSE IF at \in BinaryFiles
                  THEN [exc |-> "UnicodeDecodeError", file |-> NoPath]
             ELSE [exc |-> NoExc, file |-> at]

\* `except OSError`
IsOSError(e) ==
    e \in {"FileNotFoundError", "NotADirectoryError", "IsADirectoryError",
           "PermissionError"}

(***************************************************************************)
(* CustomComponent.                                                        *)
(***************************************************************************)
\* a constructor that rejects only the absence of both path and url
CtorRejectsNeitherOnly(path, url) == path = NoPath /\ url = NoUrl

\* CustomComponent.__init__'s check: exactly one of path and url is set
CtorRejects(path, url) ==
    (path = NoPath /\ url = NoUrl) \/ (path # NoPath /\ url # NoUrl)

\* CustomComponent.abspath
Abspath(component) ==
    IF component.path = NoPath THEN NoPath ELSE OsAbspath(component.path)

\* an __eq__ that compares the names only
EqNameOnly(a, b) == a.name = b.name

\* CustomComponent.__eq__: name, path and url all match (the object's
\* identity, oid, plays no part)
Eq(a, b) == a.name = b.name /\ a.path = b.path /\ a.url = b.url

\* dict.get(name) and dict[name] = component
DictGet(d, name) == IF name \in DOMAIN d THEN d[name] ELSE NoComp

DictPut(d, name, component) ==
    [k \in DOMAIN d \cup {name} |-> IF k = name THEN component ELSE d[k]]

(***************************************************************************)
(* CustomComponent.create_instance: its inputs, the element it fills and   *)
(* the encodings it applies.                                               *)
(*                                                                         *)
(* A Python value is [t |-> its type, v |-> its content].  A JSON text is  *)
(* [braces, members]: "" (a string field of the element that was never     *)
(* set) has no braces, "{}" has braces and no members, and a member is     *)
(* [name, json] with json the text of the value.                           *)
(***************************************************************************)
None == "None"

NoValue == "NoValue"

KeyInputs == {None, "k"}

DefaultInputs == {None, "dflt"}

\* what the frontend reports with setComponentValue; None is a JSON null
ReportValues == {None, "v1", "v2"}

\* *args
PositionalInputs == {<< >>, <<"pos">>}

ListArg == [t |-> "list", v |-> <<1, 2>>]

TupleArg == [t |-> "tuple", v |-> <<1, 2>>]

SetArg == [t |-> "set", v |-> <<1, 2>>]

FrameA == [t |-> "DataFrame", v |-> <<1>>]

FrameB == [t |-> "DataFrame", v |-> <<2>>]

\* **kwargs, in the order of the call
KwargsInputs ==
    LET xs == {<< >>} \cup
              {<<[name |-> "x", val |-> v]>> :
                  v \in {ListArg, TupleArg, SetArg}}
        ds == {<< >>,
               <<[name |-> "d", val |-> FrameA]>>,
               <<[name |-> "d", val |-> FrameB]>>,
               <<[name |-> "d", val |-> FrameA],
                 [name |-> "e", val |-> FrameB]>>}
    IN  {x \o d : x \in xs, d \in ds}

\* the declarations create_instance is called on: one served from a
\* directory, one from a url
Declared ==
    {[name |-> "alpha", path |-> <<".", "front">>, url |-> NoUrl, oid |-> 0],
     [name |-> "beta", path |-> NoPath, url |-> "http://cdn/ui", oid |-> 0]}

NoText == [braces |-> FALSE, members |-> << >>]

\* a new Element: every field of component_instance at its default
NewElement ==
    [component_name |-> "", url |-> "", args_json |-> NoText,
     args_dataframe |-> << >>]

NoCall ==
    [self |-> NoComp, args |-> << >>, default |-> None, key |-> None,
     kwargs |-> << >>]

\* no call: the record of a call that read the value store, with the
\* widget id it read
NoShown ==
    [self |-> NoComp, key |-> None, kwargs |-> << >>,
     id |-> [element |-> NewElement, user_key |-> None], set |-> FALSE]

NoResult == [exc |-> NoExc, val |-> None, detail |-> None]

\* type_util.is_dataframe_like
IsDataframeLike(val) == val.t = "DataFrame"

\* the loop over kwargs.items(): the two dicts, each in kwargs order
ArgsJson(kwargs) == SelectSeq(kwargs, LAMBDA a : ~IsDataframeLike(a.val))

ArgsDf(kwargs) == SelectSeq(kwargs, LAMBDA a : IsDataframeLike(a.val))

\* a json.dumps that encodes every value
AllSerializable(val) == TRUE

\* json.dumps of one value: a list and a tuple both give an array, a set is
\* not JSON serializable
JsonSerializable(val) == val.t \in {"list", "tuple"}

JsonOf(val) == [kind |-> "array", items |-> val.v]

\* json.dumps(args_json): the text, or the TypeError it raises
JsonDumps(args_json) ==
    IF \E i \in 1 .. Len(args_json) : ~JsonSerializable(args_json[i].val)
    THEN [exc |-> "TypeError", text |-> NoText]
    ELSE [exc |-> NoExc,
          text |-> [braces |-> TRUE,
                    members |-> [i \in 1 .. Len(args_json) |->
                                   [name |-> args_json[i].name,
                                    json |-> JsonOf(args_json[i].val)]]]]

\* arrow_table.marshall(new_args_dataframe.value.data, value): the table's
\* content
ArrowMarshall(value) == value.v

\* a marshall_element_args that writes args_json only
marshall_args_json_only(e, serialized, frames) ==
    [e EXCEPT !.args_json = serialized]

\* marshall_element_args
marshall_element_args(e, serialized, frames) ==
    [e EXCEPT !.args_json = serialized,
              !.args_dataframe =
                  @ \o [i \in 1 .. Len(frames) |->
                          [key |-> frames[i].name,
                           value |-> ArrowMarshall(frames[i].val)]]]

\* a builder that writes the arguments before the value is read whatever
\* the key
MarshallBeforeAlways(key) == TRUE

\* `if key is None: marshall_element_args()`
MarshallBefore(key) == key = None

\* a builder that never writes the arguments after the value is read
MarshallAfterNever(key) == FALSE

\* `if key is not None: marshall_element_args()`
MarshallAfter(key) == key # None

\* a call that accepts positional arguments
RejectsNoPositional(a) == FALSE

\* `if len(args) > 0: raise MarshallComponentException(...)`
RejectsPositional(a) == Len(a) > 0

\* a builder that keeps None
DefaultNeverApplied(value, default) == value

\* `if widget_value is None: widget_value = default`
DefaultApplied(value, default) == IF value = None THEN default ELSE value

\* `return widget_value if widget_value is not None else NoValue`
Coerced(value) == IF value # None THEN value ELSE NoValue

\* the widget id of the value store: the hash of the element as it is
\* when the store is called, and the user key
WidgetId(e, user_key) == [element |-> e, user_key |-> user_key]

\* _get_widget_ui_value: the value the frontend reported for the widget
\* id, None when it reported none
GetWidgetUiValue(store, e, user_key) ==
    IF WidgetId(e, user_key) \in DOMAIN store
    THEN store[WidgetId(e, user_key)]
    ELSE None

\* _enqueue_new_element_delta returns what marshall_element returned
EnqueueResult(rv) == rv

(***************************************************************************)
(* State.                                                                  *)
(***************************************************************************)
VARIABLES
    ncalls,          \* calls started so far; call k constructs object k
    _instance,       \* ComponentRegistry._instance: 0 (None) or a registry
    _instance_lock,  \* ComponentRegistry._instance_lock: its holder or 0
    registries,      \* the ComponentRegistry objects constructed so far,
                     \* each [_components, _lock]
    pc,              \* each thread's position
    op,              \* the call each thread is running
    args,            \* the call's arguments
    comp,            \* declare_component's `component`
    reg,             \* the registry instance() returned to the thread
    existing,        \* register_component's `existing`
    found,           \* get_component_path's `component`
    ret,             \* what the call returned or raised
    resp,            \* the HTTP response of the thread's request
    acquired,        \* history: the components whose register_component
                     \* took the registry lock, in the order it was taken
    replaced,        \* history: the entry the thread's write to
                     \* _components replaced
    warnings,        \* the LOGGER.warning records of each thread's call
    startAcq,        \* history: how many register_component calls had
                     \* released the lock when the thread's
                     \* get_component_path began
    warned           \* history: every LOGGER.warning record of
                     \* register_component, in the order it was logged

VARIABLES
    ipc,             \* the script thread's position in create_instance
    call,            \* create_instance's self, *args, default, key, **kwargs
    serialized_args_json,
    args_df,
    element,         \* the Element marshall_component fills
    widget_value,
    rv,              \* what marshall_component returned
    result,          \* what create_instance returned or raised
    queue,           \* the elements enqueued in this re-execution
    widgets,         \* the value store: widget id -> reported value
    looked,          \* history: the widget ids the value store was asked
                     \* for in this re-execution
    shown,           \* history: the call whose element is on screen
    earlier,         \* history: the call the frontend last reported a
                     \* value for
    rejected         \* history: the declaration of the last call that
                     \* was rejected for its positional arguments

regVars ==
    <<ncalls, _instance, _instance_lock, registries, pc, op, args, comp, reg,
      existing, found, ret, resp, acquired, replaced, warnings, startAcq,
      warned>>

instVars ==
    <<ipc, call, serialized_args_json, args_df, element, widget_value, rv,
      result, queue, widgets, looked, shown, earlier, rejected>>

vars == <<regVars, instVars>>

\* the registry object a thread works on
Registry(t) == registries[reg[t]]

\* register_component calls that have released the lock
Released ==
    Len(acquired)
    - Cardinality({t \in Threads :
                     pc[t] \in {"r_get", "r_insert", "r_release"}})

Init ==
    /\ ncalls = 0
    /\ _instance = 0
    /\ _instance_lock = NoThread
    /\ registries = << >>
    /\ pc = [t \in Threads |-> "idle"]
    /\ op = [t \in Threads |-> "none"]
    /\ args = [t \in Threads |-> NoArgs]
    /\ comp = [t \in Threads |-> NoComp]
    /\ reg = [t \in Threads |-> 0]
    /\ existing = [t \in Threads |-> NoComp]
    /\ found = [t \in Threads |-> NoComp]
    /\ ret = [t \in Threads |-> NoRet]
    /\ resp = [t \in Threads |-> NoResp]
    /\ acquired = << >>
    /\ replaced = [t \in Threads |-> NoComp]
    /\ warnings = [t \in Threads |-> << >>]
    /\ startAcq = [t \in Threads |-> 0]
    /\ warned = << >>
    /\ ipc = "idle"
    /\ call = NoCall
    /\ serialized_args_json = NoText
    /\ args_df = << >>
    /\ element = NewElement
    /\ widget_value = None
    /\ rv = None
    /\ result = NoResult
    /\ queue = << >>
    /\ widgets = << >>
    /\ looked = << >>
    /\ shown = NoShown
    /\ earlier = NoShown
    /\ rejected = NoComp

(***************************************************************************)
(* Calls.                                                                  *)
(***************************************************************************)
\* threads are interchangeable: the next call is given to the lowest idle one
MayStart(t) ==
    ncalls < MaxCalls /\ \A u \in Threads : u < t => pc[u] # "idle"

\* declare_component(path, url) from a module named `name`: constructs the
\* CustomComponent, which raises when both or neither of path and url is set
CallDeclare(t) ==
    /\ pc[t] = "idle"
    /\ MayStart(t)
    /\ \E name \in CompNames, path \in PathInputs \cup {NoPath},
          url \in UrlInputs \cup {NoUrl} :
          /\ args' = [args EXCEPT ![t] =
                        [name |-> name, path |-> path, url |-> url,
                         req |-> NoPath, cors |-> FALSE]]
          /\ IF CtorRejects(path, url)
             THEN /\ pc' = [pc EXCEPT ![t] = "done"]
                  /\ ret' = [ret EXCEPT ![t] =
                               [exc |-> "StreamlitAPIException",
                                val |-> NoPath]]
                  /\ comp' = comp
             ELSE /\ pc' = [pc EXCEPT ![t] = "i_check1"]
                  /\ ret' = ret
                  /\ comp' = [comp EXCEPT ![t] =
                                [name |-> name, path |-> path, url |-> url,
                                 oid |-> ncalls + 1]]
    /\ op' = [op EXCEPT ![t] = "declare"]
    /\ ncalls' = ncalls + 1
    /\ UNCHANGED <<_instance, _instance_lock, registries, reg, existing,
                   found, resp, acquired, replaced, warnings, startAcq>>
    /\ UNCHANGED warned
    /\ UNCHANGED instVars

\* GET <prefix>/<name>/...: ComponentRequestHandler.get(path), on the registry
\* the server obtained from ComponentRegistry.instance().  `name` is
\* path.split("/")[0]; the rest of the path is read later
CallGet(t) ==
    /\ pc[t] = "idle"
    /\ MayStart(t)
    /\ \E name \in LookupNames :
          args' = [args EXCEPT ![t] = [NoArgs EXCEPT !.name = name]]
    /\ op' = [op EXCEPT ![t] = "get"]
    /\ pc' = [pc EXCEPT ![t] = "i_check1"]
    /\ ncalls' = ncalls + 1
    /\ UNCHANGED <<_instance, _instance_lock, registries, comp, reg,
                   existing, found, ret, resp, acquired, replaced, warnings,
                   startAcq>>
    /\ UNCHANGED warned
    /\ UNCHANGED instVars

(***************************************************************************)
(* ComponentRegistry.instance(): double-checked locking.                   *)
(***************************************************************************)
\* `if cls._instance is None:` (the unlocked check)
InstCheck1(t) ==
    /\ pc[t] = "i_check1"
    /\ pc' = [pc EXCEPT ![t] =
                IF _instance = 0 THEN "i_acquire" ELSE "i_return"]
    /\ UNCHANGED <<ncalls, _instance, _instance_lock, registries, op, args,
                   comp, reg, existing, found, ret, resp, acquired,
                   replaced, warnings, startAcq>>
    /\ UNCHANGED warned
    /\ UNCHANGED instVars

\* `with cls._instance_lock:`
InstAcquire(t) ==
    /\ pc[t] = "i_acquire"
    /\ _instance_lock = NoThread
    /\ _instance_lock' = t
    /\ pc' = [pc EXCEPT ![t] = "i_check2"]
    /\ UNCHANGED <<ncalls, _instance, registries, op, args, comp, reg,
                   existing, found, ret, resp, acquired, replaced, warnings,
                   startAcq>>
    /\ UNCHANGED warned
    /\ UNCHANGED instVars

\* instance() without the check under the lock
NoSecondCheck == TRUE

\* whether the locked `if cls._instance is None:` goes on to construct
SecondCheckPasses == _instance = 0

InstCheck2(t) ==
    /\ pc[t] = "i_check2"
    /\ pc' = [pc EXCEPT ![t] =
                IF SecondCheckPasses THEN "i_construct" ELSE "i_release"]
    /\ UNCHANGED <<ncalls, _instance, _instance_lock, registries, op, args,
                   comp, reg, existing, found, ret, resp, acquired,
                   replaced, warnings, startAcq>>
    /\ UNCHANGED warned
    /\ UNCHANGED instVars

\* `cls._instance = ComponentRegistry()`: __init__ makes an empty
\* _components and a free _lock
InstConstruct(t) ==
    /\ pc[t] = "i_construct"
    /\ registries' =
         Append(registries, [_components |-> << >>, _lock |-> NoThread])
    /\ _instance' = Len(registries) + 1
    /\ pc' = [pc EXCEPT ![t] = "i_release"]
    /\ UNCHANGED <<ncalls, _instance_lock, op, args, comp, reg, existing,
                   found, ret, resp, acquired, replaced, warnings, startAcq>>
    /\ UNCHANGED warned
    /\ UNCHANGED instVars

\* leaving the `with` block
InstRelease(t) ==
    /\ pc[t] = "i_release"
    /\ _instance_lock' = NoThread
    /\ pc' = [pc EXCEPT ![t] = "i_return"]
    /\ UNCHANGED <<ncalls, _instance, registries, op, args, comp, reg,
                   existing, found, ret, resp, acquired, replaced, warnings,
                   startAcq>>
    /\ UNCHANGED warned
    /\ UNCHANGED instVars

\* `return cls._instance`, and on into the method called on the result
InstReturn(t) ==
    /\ pc[t] = "i_return"
    /\ reg' = [reg EXCEPT ![t] = _instance]
    /\ pc' = [pc EXCEPT ![t] =
                IF op[t] = "declare" THEN "r_validate" ELSE "g_read"]
    /\ startAcq' = [startAcq EXCEPT ![t] = Released]
    /\ UNCHANGED <<ncalls, _instance, _instance_lock, registries, op, args,
                   comp, existing, found, ret, resp, acquired, replaced,
                   warnings>>
    /\ UNCHANGED warned
    /\ UNCHANGED instVars

(***************************************************************************)
(* ComponentRegistry.register_component.                                   *)
(***************************************************************************)
\* register_component without the directory check
PathNotValidated(component) == TRUE

\* the path validation: a local path must be an existing directory
PathIsValid(component) ==
    Abspath(component) = NoPath \/ IsDir(Abspath(component))

RegValidate(t) ==
    /\ pc[t] = "r_validate"
    /\ IF PathIsValid(comp[t])
       THEN /\ pc' = [pc EXCEPT ![t] = "r_acquire"]
            /\ ret' = ret
       ELSE /\ pc' = [pc EXCEPT ![t] = "done"]
            /\ ret' = [ret EXCEPT ![t] =
                         [exc |-> "StreamlitAPIException", val |-> NoPath]]
    /\ UNCHANGED <<ncalls, _instance, _instance_lock, registries, op, args,
                   comp, reg, existing, found, resp, acquired, replaced,
                   warnings, startAcq>>
    /\ UNCHANGED warned
    /\ UNCHANGED instVars

\* a lock that is entered without waiting for its holder
LockNeverWaits(r) == TRUE

\* whether `with self._lock:` may be entered
LockIsFree(r) == r._lock = NoThread

RegAcquire(t) ==
    /\ pc[t] = "r_acquire"
    /\ LockIsFree(Registry(t))
    /\ registries' = [registries EXCEPT ![reg[t]]._lock = t]
    /\ acquired' = Append(acquired, comp[t])
    /\ pc' = [pc EXCEPT ![t] = "r_get"]
    /\ UNCHANGED <<ncalls, _instance, _instance_lock, op, args, comp, reg,
                   existing, found, ret, resp, replaced, warnings, startAcq>>
    /\ UNCHANGED warned
    /\ UNCHANGED instVars

\* `existing = self._components.get(component.name)`
RegGetExisting(t) ==
    /\ pc[t] = "r_get"
    /\ existing' = [existing EXCEPT ![t] =
                      DictGet(Registry(t)._components, comp[t].name)]
    /\ pc' = [pc EXCEPT ![t] = "r_insert"]
    /\ UNCHANGED <<ncalls, _instance, _instance_lock, registries, op, args,
                   comp, reg, found, ret, resp, acquired, replaced,
                   warnings, startAcq>>
    /\ UNCHANGED warned
    /\ UNCHANGED instVars

\* an insert that keeps an entry already there (dict.setdefault)
InsertedIfAbsent(d, component) ==
    IF component.name \in DOMAIN d THEN d
    ELSE DictPut(d, component.name, component)

\* `self._components[component.name] = component`
Inserted(d, component) == DictPut(d, component.name, component)

RegInsert(t) ==
    /\ pc[t] = "r_insert"
    /\ registries' =
         [registries EXCEPT ![reg[t]]._components =
            Inserted(Registry(t)._components, comp[t])]
    /\ replaced' =
         [replaced EXCEPT ![t] =
            DictGet(Registry(t)._components, comp[t].name)]
    /\ pc' = [pc EXCEPT ![t] = "r_release"]
    /\ UNCHANGED <<ncalls, _instance, _instance_lock, op, args, comp, reg,
                   existing, found, ret, resp, acquired, warnings, startAcq>>
    /\ UNCHANGED warned
    /\ UNCHANGED instVars

\* leaving `with self._lock:`
RegRelease(t) ==
    /\ pc[t] = "r_release"
    /\ registries' = [registries EXCEPT ![reg[t]]._lock = NoThread]
    /\ pc' = [pc EXCEPT ![t] = "r_log"]
    /\ UNCHANGED <<ncalls, _instance, _instance_lock, op, args, comp, reg,
                   existing, found, ret, resp, acquired, replaced, warnings,
                   startAcq>>
    /\ UNCHANGED warned
    /\ UNCHANGED instVars

\* `if existing is not None and component != existing:`
ShouldWarn(component, old) == old # NoComp /\ ~Eq(component, old)

\* the warning and the closing LOGGER.info, after the lock is released
RegLog(t) ==
    /\ pc[t] = "r_log"
    /\ warnings' =
         IF ShouldWarn(comp[t], existing[t])
         THEN [warnings EXCEPT ![t] =
                 Append(@, [new |-> comp[t], old |-> existing[t]])]
         ELSE warnings
    /\ warned' =
         IF ShouldWarn(comp[t], existing[t])
         THEN Append(warned, [new |-> comp[t], old |-> existing[t]])
         ELSE warned
    /\ pc' = [pc EXCEPT ![t] = "done"]
    /\ UNCHANGED <<ncalls, _instance, _instance_lock, registries, op, args,
                   comp, reg, existing, found, ret, resp, acquired,
                   replaced, startAcq>>
    /\ UNCHANGED instVars

(***************************************************************************)
(* ComponentRegistry.get_component_path.                                   *)
(***************************************************************************)
\* `component = self._components.get(name, None)`: read without taking
\* self._lock
LookupRead(t) ==
    /\ pc[t] = "g_read"
    /\ found' = [found EXCEPT ![t] =
                   DictGet(Registry(t)._components, args[t].name)]
    /\ pc' = [pc EXCEPT ![t] = "g_ret"]
    /\ UNCHANGED <<ncalls, _instance, _instance_lock, registries, op, args,
                   comp, reg, existing, ret, resp, acquired, replaced,
                   warnings, startAcq>>
    /\ UNCHANGED warned
    /\ UNCHANGED instVars

\* a lookup that takes .abspath of whatever dict.get returned
LookupResultNoNoneCheck(component) ==
    IF component # NoComp
    THEN [exc |-> NoExc, val |-> Abspath(component)]
    ELSE [exc |-> "AttributeError", val |-> NoPath]

\* `return component.abspath if component is not None else None`
LookupResult(component) ==
    IF component # NoComp
    THEN [exc |-> NoExc, val |-> Abspath(component)]
    ELSE [exc |-> NoExc, val |-> NoPath]

LookupReturn(t) ==
    /\ pc[t] = "g_ret"
    /\ ret' = [ret EXCEPT ![t] = LookupResult(found[t])]
    /\ pc' = [pc EXCEPT ![t] = "h_respond"]
    /\ UNCHANGED <<ncalls, _instance, _instance_lock, registries, op, args,
                   comp, reg, existing, found, resp, acquired, replaced,
                   warnings, startAcq>>
    /\ UNCHANGED warned
    /\ UNCHANGED instVars

(***************************************************************************)
(* ComponentRequestHandler.                                                *)
(***************************************************************************)
\* RequestHandler.set_header(name, value)
SetHeader(h, k, v) == [x \in DOMAIN h \cup {k} |-> IF x = k THEN v ELSE h[x]]

\* RequestHandler.write(chunk)
Write(r, chunk) == [r EXCEPT !.body = Append(@, chunk)]

\* set_default_headers: runs when tornado (re)initialises the response
DefaultHeaders(cors) ==
    IF cors THEN SetHeader(NoHeaders, "Access-Control-Allow-Origin", "*")
    ELSE NoHeaders

\* mimetypes.guess_type on the path's last segment: <<type, encoding>>
GuessType(path) ==
    LET f == path[Len(path)]
    IN  IF f = "index.html" THEN <<"text/html", "None">>
        ELSE IF f = "main.js" THEN <<"application/javascript", "None">>
        ELSE IF f = "secret.txt" THEN <<"text/plain", "None">>
        ELSE IF f = "logo.png" THEN <<"image/png", "None">>
        ELSE IF f = "nope.css" THEN <<"text/css", "None">>
        ELSE <<"None", "None">>

\* ComponentRequestHandler.get_content_type
get_content_type(abspath) ==
    LET g == GuessType(abspath)
    IN  IF g[2] = "gzip" THEN "application/gzip"
        ELSE IF g[2] # "None" THEN "application/octet-stream"
        ELSE IF g[1] # "None" THEN g[1]
        ELSE "application/octet-stream"

\* str.endswith(".html"), on the path's last segment
EndsWithHtml(path) == path[Len(path)] \in {"index.html"}

\* ComponentRequestHandler.set_extra_headers(path)
set_extra_headers(r, path) ==
    LET is_index_url == path = <<"">>
    IN  IF is_index_url \/ EndsWithHtml(path)
        THEN [r EXCEPT !.headers = SetHeader(@, "Cache-Control", "no-cache")]
        ELSE [r EXCEPT !.headers = SetHeader(@, "Cache-Control", "public")]

\* the not-found answer without set_status(404)
NotFoundNoStatus(r, path) ==
    Write(r, [text |-> "not found", path |-> path, detail |-> NoExc])

\* the 404 of an absent component root
NotFound(r, path) ==
    [Write(r, [text |-> "not found", path |-> path, detail |-> NoExc])
       EXCEPT !.status = 404]

\* tornado's answer to an exception a method lets through (send_error): the
\* response is cleared, set_default_headers runs again, the status is 500
ErrorPage(cors, opened) ==
    [status |-> 500,
     body |-> <<[text |-> "error page", path |-> NoPath, detail |-> NoExc]>>,
     headers |-> DefaultHeaders(cors),
     opened |-> opened]

\* the arguments tornado calls the method of a request with, whatever the
\* method: the groups the handler's route captured, which for this handler
\* is the one `path` that get(self, path) takes
PathArgs(path) == <<path>>

\* `def options(self)`: the method takes no argument besides self
OptionsTakes(path_args) == Len(path_args) = 0

\* ComponentRequestHandler.options: set_status(204) and finish()
options(cors) ==
    [NoResp EXCEPT !.headers = DefaultHeaders(cors), !.status = 204]

\* tornado's `method(*self.path_args)` for an OPTIONS request: the response
\* it leaves, and the exception the call raised
CallOptionsMethod(path, cors) ==
    IF OptionsTakes(PathArgs(path))
    THEN [resp |-> options(cors), exc |-> NoExc]
    ELSE [resp |-> ErrorPage(cors, << >>), exc |-> "TypeError"]

\* ComponentRequestHandler.get(path) from the lookup's answer on: the
\* response it leaves, and the exception it lets through to tornado
get(path, component_root, cors) ==
    LET r0 == [NoResp EXCEPT !.headers = DefaultHeaders(cors)]
        parts == path
        filename == IF Tail(parts) = << >> THEN <<"">> ELSE Tail(parts)
        abspath == Join(component_root, filename)
        file == OpenRead(abspath)
        r1 == [r0 EXCEPT !.opened = Append(@, abspath)]
    IN  IF component_root = NoPath
        THEN [resp |-> NotFound(r0, path), exc |-> NoExc]
        ELSE IF IsOSError(file.exc)
        THEN [resp |->
                [Write(r1, [text |-> "read error", path |-> path,
                            detail |-> file.exc])
                   EXCEPT !.status = 404],
              exc |-> NoExc]
        ELSE IF file.exc # NoExc
        THEN [resp |-> ErrorPage(cors, r1.opened), exc |-> file.exc]
        ELSE [resp |->
                set_extra_headers(
                    [Write(r1, [text |-> "contents", path |-> file.file,
                                detail |-> NoExc])
                       EXCEPT !.headers =
                          SetHeader(@, "Content-Type",
                                    get_content_type(abspath))],
                    path),
              exc |-> NoExc]

\* the handler after `component_root = self._registry.get_component_path(...)`
GetRespond(t) ==
    /\ pc[t] = "h_respond"
    /\ \E rest \in Remainders, cors \in BOOLEAN :
          LET path == <<args[t].name>> \o rest
              out == get(path, ret[t].val, cors)
          IN  /\ args' = [args EXCEPT ![t].req = path, ![t].cors = cors]
              /\ resp' = [resp EXCEPT ![t] = out.resp]
              /\ ret' = [ret EXCEPT ![t].exc = out.exc]
    /\ pc' = [pc EXCEPT ![t] = "done"]
    /\ UNCHANGED <<ncalls, _instance, _instance_lock, registries, op, comp,
                   reg, existing, found, acquired, replaced, warnings,
                   startAcq>>
    /\ UNCHANGED warned
    /\ UNCHANGED instVars

\* OPTIONS <prefix>/<name>/...: the preflight request of an asset path
Options(t) ==
    /\ pc[t] = "idle"
    /\ MayStart(t)
    /\ \E name \in LookupNames, rest \in OptionsRemainders,
          cors \in BOOLEAN :
          LET path == <<name>> \o rest
              out == CallOptionsMethod(path, cors)
          IN  /\ args' = [args EXCEPT ![t] =
                            [NoArgs EXCEPT !.name = name, !.req = path,
                                           !.cors = cors]]
              /\ resp' = [resp EXCEPT ![t] = out.resp]
              /\ ret' = [ret EXCEPT ![t] = [exc |-> out.exc, val |-> NoPath]]
    /\ op' = [op EXCEPT ![t] = "options"]
    /\ pc' = [pc EXCEPT ![t] = "done"]
    /\ ncalls' = ncalls + 1
    /\ UNCHANGED <<_instance, _instance_lock, registries, comp, reg,
                   existing, found, acquired, replaced, warnings, startAcq>>
    /\ UNCHANGED warned
    /\ UNCHANGED instVars

\* the call is over: the thread's frame is dropped
Return(t) ==
    /\ pc[t] = "done"
    /\ pc' = [pc EXCEPT ![t] = "idle"]
    /\ op' = [op EXCEPT ![t] = "none"]
    /\ args' = [args EXCEPT ![t] = NoArgs]
    /\ comp' = [comp EXCEPT ![t] = NoComp]
    /\ reg' = [reg EXCEPT ![t] = 0]
    /\ existing' = [existing EXCEPT ![t] = NoComp]
    /\ found' = [found EXCEPT ![t] = NoComp]
    /\ ret' = [ret EXCEPT ![t] = NoRet]
    /\ resp' = [resp EXCEPT ![t] = NoResp]
    /\ startAcq' = [startAcq EXCEPT ![t] = 0]
    /\ replaced' = [replaced EXCEPT ![t] = NoComp]
    /\ warnings' = [warnings EXCEPT ![t] = << >>]
    /\ UNCHANGED <<ncalls, _instance, _instance_lock, registries, acquired>>
    /\ UNCHANGED warned
    /\ UNCHANGED instVars

Next ==
    \E t \in Threads :
        \/ CallDeclare(t)
        \/ CallGet(t)
        \/ InstCheck1(t)
        \/ InstAcquire(t)
        \/ InstCheck2(t)
        \/ InstConstruct(t)
        \/ InstRelease(t)
        \/ InstReturn(t)
        \/ RegValidate(t)
        \/ RegAcquire(t)
        \/ RegGetExisting(t)
        \/ RegInsert(t)
        \/ RegRelease(t)
        \/ RegLog(t)
        \/ LookupRead(t)
        \/ LookupReturn(t)
        \/ GetRespond(t)
        \/ Options(t)
        \/ Return(t)

Spec == Init /\ [][Next]_vars

(***************************************************************************)
(* create_instance, run by the script thread.  One call is one             *)
(* re-execution of the script; the frontend reports values between the     *)
(* re-executions.                                                          *)
(***************************************************************************)
\* the call: the positional-argument check, the partition of kwargs and
\* json.dumps, up to the call of loc._enqueue_new_element_delta
CreateInstance ==
    /\ ipc = "idle"
    /\ \E self \in Declared, a \in PositionalInputs, k \in KeyInputs,
          kw \in KwargsInputs :
          LET dumped == JsonDumps(ArgsJson(kw))
              raises == RejectsPositional(a) \/ dumped.exc # NoExc
          IN  /\ call' = [self |-> self, args |-> a, default |-> None,
                          key |-> k, kwargs |-> kw]
              /\ rejected' = IF RejectsPositional(a) THEN self ELSE rejected
              /\ serialized_args_json' =
                     IF raises THEN NoText ELSE dumped.text
              /\ args_df' = IF raises THEN << >> ELSE ArgsDf(kw)
              /\ result' =
                     IF RejectsPositional(a)
                     THEN [exc |-> "MarshallComponentException",
                           val |-> None, detail |-> a[1]]
                     ELSE IF dumped.exc # NoExc
                     THEN [exc |-> "MarshallComponentException",
                           val |-> None, detail |-> dumped.exc]
                     ELSE NoResult
              /\ ipc' = IF raises THEN "done" ELSE "m_name"
    /\ element' = NewElement
    /\ widget_value' = None
    /\ rv' = None
    /\ queue' = << >>
    /\ looked' = << >>
    /\ shown' = NoShown
    /\ UNCHANGED <<widgets, earlier>>
    /\ UNCHANGED regVars

\* marshall_component: the component's name, and its url if it has one
BuilderName ==
    /\ ipc = "m_name"
    /\ element' =
           [element EXCEPT
               !.component_name = call.self.name,
               !.url = IF call.self.url # NoUrl THEN call.self.url ELSE @]
    /\ ipc' = "m_before"
    /\ UNCHANGED <<call, serialized_args_json, args_df, widget_value, rv,
                   result, queue, widgets, looked, shown, earlier,
                   rejected>>
    /\ UNCHANGED regVars

\* `if key is None: marshall_element_args()`
BuilderArgsBefore ==
    /\ ipc = "m_before"
    /\ element' =
           IF MarshallBefore(call.key)
           THEN marshall_element_args(element, serialized_args_json, args_df)
           ELSE element
    /\ ipc' = "m_value"
    /\ UNCHANGED <<call, serialized_args_json, args_df, widget_value, rv,
                   result, queue, widgets, looked, shown, earlier,
                   rejected>>
    /\ UNCHANGED regVars

\* `widget_value = _get_widget_ui_value(...)`
BuilderValue ==
    /\ ipc = "m_value"
    /\ widget_value' = GetWidgetUiValue(widgets, element, call.key)
    /\ looked' = Append(looked, WidgetId(element, call.key))
    /\ ipc' = "m_after"
    /\ UNCHANGED <<call, serialized_args_json, args_df, element, rv, result,
                   queue, widgets, shown, earlier,
                   rejected>>
    /\ UNCHANGED regVars

\* `if key is not None: marshall_element_args()`
BuilderArgsAfter ==
    /\ ipc = "m_after"
    /\ element' =
           IF MarshallAfter(call.key)
           THEN marshall_element_args(element, serialized_args_json, args_df)
           ELSE element
    /\ ipc' = "m_return"
    /\ UNCHANGED <<call, serialized_args_json, args_df, widget_value, rv,
                   result, queue, widgets, looked, shown, earlier,
                   rejected>>
    /\ UNCHANGED regVars

\* the default in place of None, and NoValue in place of a None default
\* (the call's `default` is read here only, and is chosen here)
BuilderReturn ==
    /\ ipc = "m_return"
    /\ \E default \in DefaultInputs :
          LET value == DefaultApplied(widget_value, default)
          IN  /\ call' = [call EXCEPT !.default = default]
              /\ widget_value' = value
              /\ rv' = Coerced(value)
    /\ ipc' = "enqueue"
    /\ UNCHANGED <<serialized_args_json, args_df, element, result, queue,
                   widgets, looked, shown, earlier,
                   rejected>>
    /\ UNCHANGED regVars

\* the element is enqueued and create_instance returns the result
Enqueue ==
    /\ ipc = "enqueue"
    /\ queue' = Append(queue, element)
    /\ result' = [exc |-> NoExc, val |-> EnqueueResult(rv), detail |-> None]
    /\ shown' = [self |-> call.self, key |-> call.key,
                  kwargs |-> call.kwargs, id |-> looked[1], set |-> TRUE]
    /\ ipc' = "done"
    /\ UNCHANGED <<call, serialized_args_json, args_df, element,
                   widget_value, rv, widgets, looked, earlier,
                   rejected>>
    /\ UNCHANGED regVars

\* the re-execution is over: the call's frame is dropped, the element it
\* enqueued is on screen
ScriptEnd ==
    /\ ipc = "done"
    /\ ipc' = "idle"
    /\ call' = NoCall
    /\ serialized_args_json' = NoText
    /\ args_df' = << >>
    /\ element' = NewElement
    /\ widget_value' = None
    /\ rv' = None
    /\ result' = NoResult
    /\ queue' = << >>
    /\ looked' = << >>
    /\ UNCHANGED <<widgets, shown, earlier,
                   rejected>>
    /\ UNCHANGED regVars

\* the frontend of the instance on screen calls setComponentValue; the
\* store keeps the value under the widget id of that instance
FrontendReport ==
    /\ ipc = "idle"
    /\ shown.set
    /\ \/ shown.id \in DOMAIN widgets
       \/ Cardinality(DOMAIN widgets) < MaxReported
    /\ \E v \in ReportValues :
          widgets' = [w \in DOMAIN widgets \cup {shown.id} |->
                        IF w = shown.id THEN v ELSE widgets[w]]
    /\ earlier' = shown
    /\ UNCHANGED <<ipc, call, serialized_args_json, args_df, element,
                   widget_value, rv, result, queue, looked, shown,
                   rejected>>
    /\ UNCHANGED regVars

NextInstance ==
    \/ CreateInstance
    \/ BuilderName
    \/ BuilderArgsBefore
    \/ BuilderValue
    \/ BuilderArgsAfter
    \/ BuilderReturn
    \/ Enqueue
    \/ ScriptEnd
    \/ FrontendReport

SpecInstance == Init /\ [][NextInstance]_vars

(***************************************************************************)
(* Properties of the registry, the declaration helper and the asset        *)
(* handler.                                                                *)
(***************************************************************************)
Range(s) == {s[i] : i \in 1 .. Len(s)}

\* the entries of a registry
Entries(r) == {r._components[n] : n \in DOMAIN r._components}

\* equal declarations: the same name, path and url
SameDeclaration(a, b) == a.name = b.name /\ a.path = b.path /\ a.url = b.url

\* a declare_component call that has finished registering
Registered(t) == pc[t] = "done" /\ op[t] = "declare" /\ ret[t].exc = NoExc

\* get_component_path has returned to the thread's request
LookedUp(t) == op[t] = "get" /\ pc[t] \in {"h_respond", "done"}

\* C3: a register_component that replaces an entry logs no warning when the
\* new declaration equals the replaced one (same name, path and url) and
\* exactly one when it does not, and right after the insert the registry maps
\* the name to the new declaration.
C3_ReRegisterWarning ==
    /\ \A t \in Threads :
          (Registered(t) /\ replaced[t] # NoComp) =>
             Len(warnings[t]) =
                IF SameDeclaration(comp[t], replaced[t]) THEN 0 ELSE 1
    /\ \A t \in Threads :
          pc[t] = "r_release" =>
             DictGet(Registry(t)._components, comp[t].name) = comp[t]

\* C3 happens: one finished call replaced an equal declaration, another a
\* different one
C3_Witness ==
    \E t, u \in Threads :
        /\ Registered(t) /\ Registered(u)
        /\ replaced[t] # NoComp /\ SameDeclaration(comp[t], replaced[t])
        /\ warnings[t] = << >>
        /\ replaced[u] # NoComp /\ ~SameDeclaration(comp[u], replaced[u])
        /\ Len(warnings[u]) = 1

\* the last of the first k lock acquisitions that is for `name` (0: none)
LastIndex(name, k) ==
    LET S == {i \in 1 .. k : acquired[i].name = name}
    IN  IF S = {} THEN 0 ELSE CHOOSE i \in S : \A j \in S : j <= i

\* lock acquisitions whose insert has been made
InsertsMade ==
    Len(acquired)
    - Cardinality({t \in Threads : pc[t] \in {"r_get", "r_insert"}})

\* C4: every entry is stored under its own name, so a name has at most one
\* declaration; the registry maps each name to the declaration of the call
\* that took the lock last among those that have inserted; a
\* get_component_path that began after a register call released the lock
\* finds that call's declaration or one whose call took the lock later.
C4_LastWriteWins ==
    /\ \A i \in 1 .. Len(registries) :
          \A n \in DOMAIN registries[i]._components :
             registries[i]._components[n].name = n
    /\ \A i \in 1 .. Len(registries) :
          \A n \in CompNames :
             LET k == LastIndex(n, InsertsMade)
             IN  DictGet(registries[i]._components, n) =
                    IF k = 0 THEN NoComp ELSE acquired[k]
    /\ \A t \in Threads :
          (op[t] = "get" /\ pc[t] \in {"g_ret", "h_respond", "done"}) =>
             LET k == LastIndex(args[t].name, startAcq[t])
             IN  k > 0 =>
                    \E j \in k .. Len(acquired) : acquired[j] = found[t]

\* C4 happens: two calls registered the same name one after the other and a
\* lookup that began after both found the second
C4_Witness ==
    \E t \in Threads :
        /\ op[t] = "get" /\ pc[t] = "h_respond"
        /\ Len(acquired) >= 2
        /\ acquired[1].name = args[t].name
        /\ acquired[2].name = args[t].name
        /\ ~SameDeclaration(acquired[1], acquired[2])
        /\ startAcq[t] = 2
        /\ found[t] = acquired[2]

\* a thread to which instance() has returned
HasRegistry(t) ==
    \/ pc[t] \in {"r_validate", "r_acquire", "r_get", "r_insert", "r_release",
                  "r_log", "g_read", "g_ret", "h_respond"}
    \/ pc[t] = "done" /\ (op[t] = "get" \/ comp[t] # NoComp)

\* C5: the ComponentRegistry constructor runs at most once, and exactly once
\* by the time instance() returns to anyone; every caller gets that one
\* object, never None.
C5_SingletonOnce ==
    /\ Len(registries) <= 1
    /\ \A t \in Threads :
          HasRegistry(t) =>
             Len(registries) = 1 /\ reg[t] = 1 /\ _instance = 1

\* C5 happens: a thread that saw None at the unlocked check finds, under the
\* lock, the registry another thread made meanwhile and has already received
C5_Witness ==
    \E t, u \in Threads :
        /\ pc[t] = "i_check2" /\ _instance # 0
        /\ HasRegistry(u) /\ reg[u] = _instance

\* a thread inside register_component's `with self._lock:` block
InCritical(t) == pc[t] \in {"r_get", "r_insert", "r_release"}

\* C6 as stated: the map is never read by get_component_path while another
\* thread is inside the insert critical section.
C6_NoReadInsideCriticalSection ==
    [][\A t \in Threads :
          (pc[t] = "g_read" /\ pc'[t] = "g_ret") =>
             ~\E u \in Threads : u # t /\ InCritical(u)]_vars

\* C6, amended: every write to the map is made by the thread that holds the
\* registry lock, at most one thread is inside the critical section, and the
\* `existing` it read is still the entry its insert replaces (a
\* read-modify-write); the lookup reads the map in one step without the lock.
C6_WritesUnderLock ==
    /\ [](\A t \in Threads :
             InCritical(t) =>
                /\ Registry(t)._lock = t
                /\ \A u \in Threads : InCritical(u) => u = t)
    /\ [](\A t \in Threads :
             pc[t] = "r_insert" =>
                existing[t] = DictGet(Registry(t)._components, comp[t].name))
    /\ [][\A i \in 1 .. Len(registries) :
             registries'[i]._components # registries[i]._components =>
                \E t \in Threads :
                   /\ registries[i]._lock = t
                   /\ pc[t] = "r_insert" /\ pc'[t] = "r_release"]_vars

\* C6 happens: a call is about to replace the entry it read under the lock
\* while a lookup of the same name is about to read the map
C6_Witness ==
    \E t, u \in Threads :
        /\ pc[t] = "r_insert" /\ existing[t] # NoComp
        /\ pc[u] = "g_read" /\ args[u].name = comp[t].name

\* both or neither of path and url given
BothOrNeither(a) == (a.path = NoPath) = (a.url = NoUrl)

\* C7: a declare_component with both or neither of path and url raises
\* StreamlitAPIException at once: no component is made, the call takes no
\* further step, and no registry entry or lock acquisition is ever for such
\* a declaration.
C7_BadDeclarationRejected ==
    /\ \A t \in Threads :
          (op[t] = "declare" /\ BothOrNeither(args[t])) =>
             /\ pc[t] = "done"
             /\ ret[t].exc = "StreamlitAPIException"
             /\ comp[t] = NoComp
    /\ \A i \in 1 .. Len(registries) :
          \A c \in Entries(registries[i]) : ~BothOrNeither(c)
    /\ \A c \in Range(acquired) : ~BothOrNeither(c)

\* C7 happens: one call failed with neither, another with both
C7_Witness ==
    \E t, u \in Threads :
        /\ op[t] = "declare" /\ args[t].path = NoPath /\ args[t].url = NoUrl
        /\ op[u] = "declare" /\ args[u].path # NoPath /\ args[u].url # NoUrl
        /\ ret[t].exc = "StreamlitAPIException"
        /\ ret[u].exc = "StreamlitAPIException"
        /\ Len(registries) = 1

\* C8: registering "gone" (no directory /app/gone) raises
\* StreamlitAPIException and the call never takes the lock, so the registry
\* keeps what it had; registering "./front" (the directory /app/front) ends
\* without an exception, and a lookup that finds such an entry returns
\* "/app/front".
C8_PathValidation ==
    /\ \A t \in Threads :
          (op[t] = "declare" /\ comp[t].path = <<"gone">>) =>
             /\ pc[t] \in {"i_check1", "i_acquire", "i_check2", "i_construct",
                           "i_release", "i_return", "r_validate", "done"}
             /\ pc[t] = "done" => ret[t].exc = "StreamlitAPIException"
             /\ comp[t] \notin Range(acquired)
    /\ \A i \in 1 .. Len(registries) :
          \A c \in Entries(registries[i]) : c.path # <<"gone">>
    /\ \A t \in Threads :
          (pc[t] = "done" /\ op[t] = "declare"
             /\ comp[t].path = <<".", "front">>) =>
             ret[t].exc = NoExc /\ comp[t] \in Range(acquired)
    /\ \A t \in Threads :
          (LookedUp(t) /\ found[t].path = <<".", "front">>) =>
             ret[t].val = <<"", "app", "front">>

\* C8 happens: a registration of a missing directory failed while the name
\* kept its earlier entry, and a lookup returned that entry's directory
C8_Witness ==
    \E t, u \in Threads :
        /\ pc[t] = "done" /\ comp[t].path = <<"gone">>
        /\ ret[t].exc = "StreamlitAPIException"
        /\ DictGet(Registry(t)._components, comp[t].name) # NoComp
        /\ LookedUp(u) /\ args[u].name = comp[t].name
        /\ ret[u].val = <<"", "app", "front">>

\* C9: get_component_path never raises, and returns None exactly when it
\* found no entry under the name or a URL-backed one, a path exactly when it
\* found a local-backed one.
C9_LookupAbsent ==
    \A t \in Threads :
        /\ (op[t] = "get" /\ pc[t] = "h_respond") => ret[t].exc = NoExc
        /\ LookedUp(t) =>
              (ret[t].val = NoPath) =
                 (found[t] = NoComp \/ found[t].url # NoUrl)
        /\ LookedUp(t) =>
              (ret[t].val # NoPath) =
                 (found[t] # NoComp /\ found[t].path # NoPath)

\* C9 happens: one lookup found nothing, another a URL-backed entry
C9_Witness ==
    \E t, u \in Threads :
        /\ op[t] = "get" /\ pc[t] = "h_respond" /\ found[t] = NoComp
        /\ op[u] = "get" /\ pc[u] = "h_respond" /\ found[u].url # NoUrl
        /\ ret[t].val = NoPath /\ ret[u].val = NoPath

\* C10: a GET whose component name has no entry, or a URL-backed one, answers
\* 404 with the body "<request path> not found", opens no file and lets no
\* exception through.
C10_NotFound ==
    \A t \in Threads :
        (pc[t] = "done" /\ op[t] = "get"
           /\ (found[t] = NoComp \/ found[t].path = NoPath)) =>
           /\ resp[t].status = 404
           /\ resp[t].body =
                 <<[text |-> "not found", path |-> args[t].req,
                    detail |-> NoExc]>>
           /\ args[t].req[1] = args[t].name
           /\ resp[t].opened = << >>
           /\ ret[t].exc = NoExc

\* C10 happens: a name registered with a local path was registered again
\* with a URL, and a GET that found the URL-backed entry answered 404
C10_Witness ==
    \E t \in Threads :
        /\ pc[t] = "done" /\ op[t] = "get" /\ resp[t].status = 404
        /\ found[t].url # NoUrl
        /\ \E i, j \in 1 .. Len(acquired) :
              /\ i < j
              /\ acquired[i].name = found[t].name
              /\ acquired[i].path # NoPath
              /\ acquired[j] = found[t]

(***************************************************************************)
(* Properties of create_instance.                                          *)
(***************************************************************************)
\* what the element holds once the name, the url and the arguments of the
\* call are written, each argument once
Encoded(kwargs) ==
    marshall_element_args(NewElement, JsonDumps(ArgsJson(kwargs)).text,
                          ArgsDf(kwargs))

\* the element of the call with its name (and url when remote) and no
\* argument
NameOnly ==
    [NewElement EXCEPT
        !.component_name = call.self.name,
        !.url = IF call.self.url # NoUrl THEN call.self.url ELSE @]

\* the element of the call with its name (and url) and every argument
WithArguments ==
    [Encoded(call.kwargs) EXCEPT
        !.component_name = call.self.name,
        !.url = IF call.self.url # NoUrl THEN call.self.url ELSE @]

\* the call in progress has read the value store, and the frontend reported
\* a value for an earlier call on the same declaration
LaterCall == Len(looked) > 0 /\ earlier.set /\ earlier.self = call.self

\* the call in progress has run the whole builder
BuilderDone ==
    ipc \in {"m_return", "enqueue"} \/ (ipc = "done" /\ result.exc = NoExc)

\* C1 (as stated): across re-executions of create_instance on the same
\* declaration, a keyless call whose named arguments differ from an earlier
\* keyless call's has the value store hash a different content (so the
\* value reported for the earlier arguments is not returned to it), and a
\* keyed call with the key of an earlier call has it hash the same content
\* whatever the arguments (so the value reported for that key is returned).
C1_AnyArgumentChangeChangesIdentity ==
    LaterCall =>
        /\ (call.key = None /\ earlier.key = None
              /\ call.kwargs # earlier.kwargs)
           => looked[1] # earlier.id
        /\ (call.key # None /\ earlier.key = call.key)
           => /\ looked[1] = earlier.id
              /\ ipc = "m_after" => widget_value = widgets[earlier.id]

\* C1 (amended): a keyless call whose arguments ENCODE differently (the
\* JSON text of the non-tabular arguments, or the named tabular blobs) from
\* an earlier keyless call's has the value store hash a different content,
\* and is returned nothing unless a value was reported for its own content;
\* a keyless call whose arguments encode the same has it hash the same
\* content; a keyed call with the key of an earlier call has the store hash
\* the same content whatever the arguments, and is returned the value
\* reported for that key.
C1_IdentityFollowsEncoding ==
    LaterCall =>
        /\ (call.key = None /\ earlier.key = None
              /\ Encoded(call.kwargs) # Encoded(earlier.kwargs))
           => /\ looked[1] # earlier.id
              /\ (ipc = "m_after" /\ looked[1] \notin DOMAIN widgets)
                 => widget_value = None
        /\ (call.key = None /\ earlier.key = None
              /\ Encoded(call.kwargs) = Encoded(earlier.kwargs))
           => looked[1] = earlier.id
        /\ (call.key # None /\ earlier.key = call.key)
           => /\ looked[1] = earlier.id
              /\ ipc = "m_after" => widget_value = widgets[earlier.id]

\* a keyless call has just read the value store; the frontend reported a
\* value for an earlier keyless call on the same declaration whose
\* arguments encode differently, and the call is returned nothing
C1_Witness ==
    /\ LaterCall
    /\ ipc = "m_after"
    /\ call.key = None
    /\ earlier.key = None
    /\ Encoded(call.kwargs) # Encoded(earlier.kwargs)
    /\ widgets[earlier.id] \in {"v1", "v2"}
    /\ widget_value = None

\* C2: in every call that reaches the builder the value store is called
\* once; when the call is made the element of a keyless call holds
\* args_json and every tabular blob, the element of a keyed call holds the
\* name (and url when remote) and no argument, and once the builder is done
\* the element of either holds the arguments.
C2_WriteReadOrder ==
    /\ Len(looked) <= 1
    /\ ipc = "m_value"
       => element = IF call.key = None THEN WithArguments ELSE NameOnly
    /\ Len(looked) = 1
       => looked[1].element =
              IF call.key = None THEN WithArguments ELSE NameOnly
    /\ BuilderDone => Len(looked) = 1 /\ element = WithArguments

\* the builder of a keyed call with a JSON argument and two tabular
\* arguments is done: the value store saw no argument, the element holds
\* them all
C2_Witness ==
    /\ ipc = "m_return"
    /\ call.key # None
    /\ Len(ArgsJson(call.kwargs)) = 1
    /\ Len(ArgsDf(call.kwargs)) = 2
    /\ looked[1].element = NameOnly
    /\ Len(element.args_json.members) = 1
    /\ Len(element.args_dataframe) = 2

(***************************************************************************)
(* Properties of the asset handler's answers for a registered directory.   *)
(***************************************************************************)
\* a GET has answered for a component registered with a directory
ServedLocal(t) == pc[t] = "done" /\ op[t] = "get" /\ ret[t].val # NoPath

\* path p is root or lies below it
IsUnder(p, root) ==
    Len(p) >= Len(root) /\ SubSeq(p, 1, Len(root)) = root

\* C11: every path a GET on a component registered with a directory opens
\* lies inside that component's root directory: ".." segments and an
\* absolute remainder are rejected or neutralized before the open, and no
\* file outside the root is read.
C11_ReadsStayInsideRoot ==
    \A t \in Threads :
        ServedLocal(t) =>
            /\ \A i \in 1 .. Len(resp[t].opened) :
                  IsUnder(Normpath(resp[t].opened[i]), ret[t].val)
            /\ \A i \in 1 .. Len(resp[t].body) :
                  resp[t].body[i].text = "contents"
                      => IsUnder(resp[t].body[i].path, ret[t].val)

\* C12: when the file of a GET on a component registered with a directory
\* cannot be opened or read as text, whatever the failure, the answer is 404
\* with the body "<request path> read error: <detail>", never 500, and has
\* neither Content-Type nor Cache-Control.
C12_ReadFailureIs404 ==
    \A t \in Threads :
        (ServedLocal(t) /\ OpenRead(resp[t].opened[1]).exc # NoExc) =>
            /\ resp[t].status = 404
            /\ resp[t].body =
                  <<[text |-> "read error", path |-> args[t].req,
                     detail |-> OpenRead(resp[t].opened[1]).exc]>>
            /\ "Content-Type" \notin DOMAIN resp[t].headers
            /\ "Cache-Control" \notin DOMAIN resp[t].headers
            /\ ret[t].exc = NoExc

\* C13: a GET whose path within the component is empty (the request path is
\* the component's name) answers with Cache-Control: no-cache, as does a
\* served path ending in .html; every other served asset answers with
\* Cache-Control: public.
C13_CachePolicy ==
    \A t \in Threads :
        ServedLocal(t) =>
            LET h == resp[t].headers
                rel == Tail(args[t].req)
                html == EndsWithHtml(args[t].req)
            IN  /\ rel = << >>
                   => /\ "Cache-Control" \in DOMAIN h
                      /\ h["Cache-Control"] = "no-cache"
                /\ (resp[t].status = 200 /\ html)
                   => h["Cache-Control"] = "no-cache"
                /\ (resp[t].status = 200 /\ rel # << >> /\ ~html)
                   => h["Cache-Control"] = "public"

\* a request has been answered
Answered(t) == pc[t] = "done" /\ op[t] \in {"get", "options"}

\* C14: an OPTIONS request to any asset path answers 204 with an empty body;
\* with the allow-cross-origin setting on, every answer of the handler (the
\* 200, the 404 and the 204) has Access-Control-Allow-Origin: *, and with
\* the setting off no answer has the header.
C14_PreflightAndCors ==
    \A t \in Threads :
        /\ (pc[t] = "done" /\ op[t] = "options")
           => resp[t].status = 204 /\ resp[t].body = << >>
        /\ Answered(t)
           => IF args[t].cors
              THEN /\ "Access-Control-Allow-Origin" \in DOMAIN resp[t].headers
                   /\ resp[t].headers["Access-Control-Allow-Origin"] = "*"
              ELSE "Access-Control-Allow-Origin" \notin DOMAIN resp[t].headers

\* the call in progress is over and returned
Returned == ipc = "done" /\ result.exc = NoExc

\* the builder of the call in progress has returned
Yielded == ipc = "enqueue" \/ Returned

\* a named argument of the call in progress is a set
HasSetArgument == \E i \in DOMAIN call.kwargs : call.kwargs[i].val = SetArg

\* C15: when the frontend has reported nothing for the widget id of the call
\* the builder yields the call's default, or NoValue when the default is
\* None; when it has reported a value that is not null the builder yields
\* that value whatever the default; the builder never yields None.
C15_ValueResolution ==
    Yielded =>
        /\ looked[1] \notin DOMAIN widgets
           => rv = IF call.default # None THEN call.default ELSE NoValue
        /\ (looked[1] \in DOMAIN widgets /\ widgets[looked[1]] # None)
           => rv = widgets[looked[1]]
        /\ rv # None

\* nothing was reported, the call has no default, the builder yielded
\* NoValue
C15_Witness ==
    /\ Yielded
    /\ looked[1] \notin DOMAIN widgets
    /\ call.default = None
    /\ rv = NoValue
    /\ \E id \in DOMAIN widgets : widgets[id] = "v1"

\* C16: when the frontend has reported an explicit null for the widget id
\* of a call, what the call returns differs from what the same call returns
\* when nothing was reported: the null is neither replaced by the default
\* nor turned into NoValue.
C16_NullToldFromNothing ==
    (Returned /\ looked[1] \in DOMAIN widgets /\ widgets[looked[1]] = None)
        => result.val # (IF call.default # None THEN call.default
                         ELSE NoValue)

\* C17: a call with positional arguments raises MarshallComponentException
\* naming the first of them, without the value store being asked and
\* without an element being enqueued, and leaves the registry as it was; a
\* call without positional arguments whose arguments encode returns, also
\* after a call on the same declaration raised.
C17_PositionalArgumentRejected ==
    /\ (ipc = "done" /\ call.args # << >>)
       => /\ result.exc = "MarshallComponentException"
          /\ result.detail = call.args[1]
          /\ looked = << >>
          /\ queue = << >>
    /\ call.args # << >> => ipc = "done"
    /\ _instance = 0 /\ registries = << >>
    /\ (ipc = "done" /\ call.args = << >> /\ ~HasSetArgument)
       => result.exc = NoExc /\ Len(queue) = 1

\* a call returned after a call on the same declaration was rejected for
\* its positional argument
C17_Witness ==
    /\ Returned
    /\ rejected = call.self

\* C18: a call, keyed or not, with a named argument json.dumps cannot
\* encode raises MarshallComponentException wrapping the TypeError before
\* the builder is run: the value store is not asked and no element is
\* enqueued.
C18_EagerJsonEncoding ==
    (call.args = << >> /\ HasSetArgument) =>
        /\ ipc = "done"
        /\ result.exc = "MarshallComponentException"
        /\ result.detail = "TypeError"
        /\ looked = << >>
        /\ queue = << >>

\* a keyed call with a set and a table among its arguments raised
C18_Witness ==
    /\ ipc = "done"
    /\ call.args = << >>
    /\ call.key # None
    /\ HasSetArgument
    /\ Len(ArgsDf(call.kwargs)) = 1
    /\ result.exc = "MarshallComponentException"

\* C19: a call that returned, keyed or not, enqueued one element; the
\* element has the component's name, its url iff it has one, the JSON text
\* of the non-tabular arguments and one blob per tabular argument, in
\* order, each with the argument's name; the call returned what the
\* enqueue returned.
C19_OneNodeArgumentsOnce ==
    Returned =>
        /\ Len(queue) = 1
        /\ queue[1].component_name = call.self.name
        /\ queue[1].url =
               (IF call.self.url # NoUrl THEN call.self.url ELSE "")
        /\ queue[1].args_json = JsonDumps(ArgsJson(call.kwargs)).text
        /\ Len(queue[1].args_dataframe) = Len(ArgsDf(call.kwargs))
        /\ \A i \in 1 .. Len(ArgsDf(call.kwargs)) :
              queue[1].args_dataframe[i] =
                  [key |-> ArgsDf(call.kwargs)[i].name,
                   value |-> ArrowMarshall(ArgsDf(call.kwargs)[i].val)]
        /\ result.val = EnqueueResult(rv)

\* a keyed call on the url-backed declaration with a JSON argument and two
\* tables returned
C19_Witness ==
    /\ Returned
    /\ call.key # None
    /\ call.self.url # NoUrl
    /\ Len(ArgsJson(call.kwargs)) = 1
    /\ Len(queue[1].args_dataframe) = 2
    /\ queue[1].args_dataframe[2].key = "e"


(***************************************************************************)
(* Warnings of concurrent register_component calls.                        *)
(***************************************************************************)
\* the lock acquisitions of register_component calls on `name`
AcquiredFor(name) == {i \in 1 .. Len(acquired) : acquired[i].name = name}

\* the calls on `name` that took the lock and have not yet passed the
\* warning
Pending(name) ==
    {t \in Threads :
        /\ comp[t].name = name
        /\ pc[t] \in {"r_get", "r_insert", "r_release", "r_log"}}

\* the warnings logged so far by calls on `name`
WarnedFor(name) == {i \in 1 .. Len(warned) : warned[i].new.name = name}

\* no two of the declarations registered on `name` are equal
PairwiseNonEqual(name) ==
    \A i, j \in AcquiredFor(name) :
        i # j => ~SameDeclaration(acquired[i], acquired[j])

\* C20: under every interleaving, a register_component call that has
\* finished has logged a warning exactly when the entry its insert replaced
\* exists and is not equal to its own declaration, and that warning names
\* the replaced entry; and once the k calls that registered pairwise
\* non-equal declarations on one name (unregistered at the start) have all
\* passed the warning, exactly k-1 warnings were logged for that name.
C20_WarningPerReplacement ==
    /\ \A t \in Threads :
          Registered(t) =>
             /\ (warnings[t] # << >>)
                <=> (replaced[t] # NoComp
                       /\ ~SameDeclaration(comp[t], replaced[t]))
             /\ warnings[t] # << >>
                => warnings[t] = <<[new |-> comp[t], old |-> replaced[t]]>>
    /\ \A n \in CompNames :
          (AcquiredFor(n) # {} /\ Pending(n) = {} /\ PairwiseNonEqual(n))
          => Cardinality(WarnedFor(n)) = Cardinality(AcquiredFor(n)) - 1

\* three pairwise non-equal declarations were registered on one name, the
\* last two by calls that overlapped: the call that took the lock second
\* logged its warning after the call that took it third, and the two
\* warnings name the first and the second declaration
C20_Witness ==
    \E n \in CompNames :
        /\ Len(acquired) = 3
        /\ AcquiredFor(n) = {1, 2, 3}
        /\ PairwiseNonEqual(n)
        /\ Pending(n) = {}
        /\ \A t \in Threads : Registered(t)
        /\ warned = <<[new |-> acquired[3], old |-> acquired[2]],
                      [new |-> acquired[2], old |-> acquired[1]]>>

====
